---- MODULE Spec2Model ----
(***************************************************************************)
(* A model of rev, a minimal version-control engine                       *)
(* (src/rev/rev_lib/repository.py and the command dispatch of             *)
(* src/rev/__main__.py).                                                   *)
(*                                                                         *)
(* The state is the file system the program works on: the working         *)
(* directory, and under .rev the object store, the index file, the head   *)
(* file and the branch file refs/heads/main.  Every command of the CLI is *)
(* one action.  SHA-1 is modelled as a collision-free function of the     *)
(* hashed bytes, zlib as a lossless wrapper.  The modification time that  *)
(* update_index and revert_to_commit write into an index line is left out *)
(* of the line: read_index parses it and no operation ever uses it.       *)
(*                                                                         *)
(* The paths given to rev add are paths of files of the working directory, *)
(* which get_working_directory_files takes to be every file outside .rev;  *)
(* the digests given to rev revert are strings of hexadecimal digits, of   *)
(* any length, stored or not.                                              *)
(***************************************************************************)
EXTENDS Integers, Sequences, FiniteSets, TLC

VARIABLES
    exists,     \* os.path.exists(repo_dir)
    wd,         \* the working directory: path -> file
    objects,    \* .rev/objects: the set of stored object files
    index,      \* .rev/index: the sequence of its lines
    head,       \* .rev/head
    main,       \* .rev/refs/heads/main
    now,        \* int(time.time()) when it was last read
    steps,      \* the commands run and edits made so far
    last,       \* the command that last wrote or failed: its name, the path a
                \* successful rev add staged, the digest the command took or
                \* returned when it succeeded (for rev revert also when it
                \* failed), and whether it succeeded
    made,       \* the commits commit_changes has returned, oldest first, each with
                \* the tree it built and the index entries it built the tree from
    reverted,   \* a revert_to_commit has succeeded
    procs       \* the processes that run a command step by step: where each is
                \* in its code, the path it stages, the index lines it read and
                \* the message or the content of the commit it creates

vars == <<exists, wd, objects, index, head, main, now, steps, last, made, reverted,
          procs>>

----------------------------------------------------------------------------
(* Bounds of the model *)

\* the commands run and the edits made by the user are at most MaxSteps together
MaxSteps == 5
\* the clock runs from 0 to MaxTime
MaxTime == 1
\* the commands started where they are run one file access at a time are at
\* most MaxCommands
MaxCommands == 4

----------------------------------------------------------------------------
(* Paths.  A path is its sequence of "/"-separated segments, a segment the *)
(* sequence of its blank-separated words, so that "d/a" is <<<<"d">>,      *)
(* <<"a">>>> and "my a" is <<<<"my", "a">>>>.                              *)

PathA == << <<"a">> >>
PathDA == << <<"d">>, <<"a">> >>
PathMyA == << <<"my", "a">> >>
Paths == {PathA, PathDA, PathMyA}

\* the code points of the characters of a word
WordCodes(w) ==
    CASE w = "a" -> <<97>>
      [] w = "d" -> <<100>>
      [] w = "my" -> <<109, 121>>

RECURSIVE JoinCodes(_, _)
\* the code points of the words or segments in seq, joined by the character sep
JoinCodes(seq, sep) ==
    IF Len(seq) = 0 THEN <<>>
    ELSE IF Len(seq) = 1 THEN seq[1]
    ELSE seq[1] \o <<sep>> \o JoinCodes(Tail(seq), sep)

SegmentCodes(s) == JoinCodes([i \in 1..Len(s) |-> WordCodes(s[i])], 32)

\* the path as the string the code holds: its code points
PathCodes(p) == JoinCodes([i \in 1..Len(p) |-> SegmentCodes(p[i])], 47)

RECURSIVE StrLess(_, _)
\* Python's str < str: lexicographic by code point
StrLess(s, t) ==
    IF Len(t) = 0 THEN FALSE
    ELSE IF Len(s) = 0 THEN TRUE
    ELSE IF s[1] # t[1] THEN s[1] < t[1]
    ELSE StrLess(Tail(s), Tail(t))

\* os.path.basename(path): the last segment
basename(p) == << p[Len(p)] >>

\* entry.strip().split()[-1] of an index line: the last blank-separated token
\* of the line, which is the last token of its path
LastToken(p) ==
    LET multi == {i \in 1..Len(p) : Len(p[i]) > 1}
    IN  IF multi = {} THEN p
        ELSE LET k == CHOOSE i \in multi : \A j \in multi : j <= i
             IN  << << p[k][Len(p[k])] >> >> \o SubSeq(p, k + 1, Len(p))

----------------------------------------------------------------------------
(* Files of the working directory *)

NoFile == [there |-> FALSE, content |-> <<>>, exec |-> FALSE]
File(c, x) == [there |-> TRUE, content |-> c, exec |-> x]

\* the files a user writes: two contents, not executable
UserFiles == {File(<<1>>, FALSE), File(<<2>>, FALSE)}

\* the files that may be in the directory when rev is first run; every other
\* working directory is reached by WriteFile and RemoveFile
InitialFiles == {File(<<1>>, FALSE)}

----------------------------------------------------------------------------
(* Digests and objects *)

\* the length of hashlib.sha1(...).hexdigest()
HexDigestLen == 40

\* hashlib.sha1(full_data).hexdigest(), collision-free: the digest names the
\* bytes it was computed over
Sha1(full_data) == [len |-> HexDigestLen, of |-> full_data]

\* header + content of an object: f"{kind} {len(content)}\0" + content, the
\* content being the bytes of a blob, the entries of a tree, the lines of a commit
FullData(kind, content) ==
    CASE kind = "blob" -> [kind |-> "blob", bytes |-> content]
      [] kind = "tree" -> [kind |-> "tree", entries |-> content]
      [] kind = "commit" -> [kind |-> "commit", lines |-> content]

\* raw[null_idx + 1:], what follows the header
Content(full_data) ==
    CASE full_data.kind = "blob" -> full_data.bytes
      [] full_data.kind = "tree" -> full_data.entries
      [] full_data.kind = "commit" -> full_data.lines

NoData == [kind |-> "none", nothing |-> <<>>]
\* None, where the code returns or passes a digest
None == [len |-> 0, of |-> NoData]

\* zlib.compress and zlib.decompress
Compress(data) == <<"zlib", data>>
Decompress(file) == file[2]

\* WriteObject with the path taken from the kind in place of the digest: the
\* objects of one kind overwrite each other
WriteObject_OnePerKind(objs, full_data) ==
    {o \in objs : o.sha.of.kind # full_data.kind}
        \cup {[sha |-> Sha1(full_data), file |-> Compress(full_data)]}

\* WriteObject that leaves the file alone when there is one at the path
WriteObject_IfAbsent(objs, full_data) ==
    IF \E o \in objs : o.sha = Sha1(full_data) THEN objs
    ELSE objs \cup {[sha |-> Sha1(full_data), file |-> Compress(full_data)]}

\* the file written at objects/<sha[:2]>/<sha[2:]>, replacing what was there
WriteObject(objs, full_data) ==
    {o \in objs : o.sha # Sha1(full_data)}
        \cup {[sha |-> Sha1(full_data), file |-> Compress(full_data)]}

\* read_object(sha): the (obj_type, content) of a stored object, NoData for
\* (None, None)
read_object(objs, sha) ==
    IF sha.len < HexDigestLen THEN NoData
    ELSE IF ~ \E o \in objs : o.sha = sha THEN NoData
    ELSE Decompress((CHOOSE o \in objs : o.sha = sha).file)

\* compute_file_hash(file_path) of a file that exists
compute_file_hash(file) == Sha1(FullData("blob", file.content))

----------------------------------------------------------------------------
(* The index *)

\* one line of the index file: f"{mode} {blob_hash} {timestamp} {rel_path}\n"
IndexLine(mode, blob_hash, path) ==
    [mode |-> mode, blob_hash |-> blob_hash, path |-> path]

\* "100755" if os.access(file_path, os.X_OK) else "100644"
FileMode(file) == IF file.exec THEN "100755" ELSE "100644"

\* update_index(file_path, blob_hash): the lines written back to the index file
update_index(lines, file, rel_path, blob_hash) ==
    LET new_entry == IndexLine(FileMode(file), blob_hash, rel_path)
        entry_path(entry) == LastToken(entry.path)
        found == \E i \in 1..Len(lines) : entry_path(lines[i]) = rel_path
        new_entries == [i \in 1..Len(lines) |->
                          IF entry_path(lines[i]) = rel_path THEN new_entry
                          ELSE lines[i]]
    IN  IF found THEN new_entries ELSE Append(new_entries, new_entry)

\* index[path] = {...} on a dict kept as the sequence of its items
DictSet(dict, entry) ==
    IF \E i \in 1..Len(dict) : dict[i].path = entry.path
    THEN [i \in 1..Len(dict) |->
            IF dict[i].path = entry.path THEN entry ELSE dict[i]]
    ELSE Append(dict, entry)

RECURSIVE ReadLines(_, _)
ReadLines(lines, n) ==
    IF n = 0 THEN <<>> ELSE DictSet(ReadLines(lines, n - 1), lines[n])

\* read_index(): the dict of the index file, as the sequence of its items;
\* parts[3] of split(maxsplit=3) is the whole path of the line
read_index(lines) == ReadLines(lines, Len(lines))

Range(seq) == {seq[i] : i \in 1..Len(seq)}
Keys(dict) == {dict[i].path : i \in 1..Len(dict)}
Get(dict, path) == dict[CHOOSE i \in 1..Len(dict) : dict[i].path = path]

RECURSIVE SortedKeys(_)
\* the keys in the order of sorted(dict.items())
SortedKeys(S) ==
    IF S = {} THEN <<>>
    ELSE LET m == CHOOSE x \in S :
                    \A y \in S \ {x} : StrLess(PathCodes(x), PathCodes(y))
         IN  <<m>> \o SortedKeys(S \ {m})

----------------------------------------------------------------------------
(* Trees and commits *)

\* one entry of a tree: f"{mode} {name}\0" + the 20 bytes of the digest
TreeEntry(mode, name, sha) == [mode |-> mode, name |-> name, sha |-> sha]

\* the content create_tree builds from the dict of the index
TreeContent(index_entries) ==
    LET sorted_entries == SortedKeys(Keys(index_entries))
    IN  [i \in 1..Len(sorted_entries) |->
            LET data == Get(index_entries, sorted_entries[i])
            IN  TreeEntry(data.mode, basename(sorted_entries[i]), data.blob_hash)]

\* create_tree(index_entries): the digest returned
create_tree(index_entries) == Sha1(FullData("tree", TreeContent(index_entries)))

\* one line of a commit's content
Line(key, sha, time, text) == [key |-> key, sha |-> sha, time |-> time, text |-> text]

\* a token that is no digest, as in the message "parent of all fixes"
Word == [len |-> 2, of |-> NoData]

\* the messages given to commit -m: a plain one, and one whose line starts
\* with "parent "
Messages == { <<Line("text", None, 0, "msg")>>, <<Line("parent", Word, 0, "")>> }

Author == "user <user@example.com>"

\* CommitContent without the parent line
CommitContent_NoParent(tree_hash, parent_hash, message, author, time) ==
    <<Line("tree", tree_hash, 0, "")>>
        \o <<Line("author", None, time, author), Line("committer", None, time, author)>>
        \o <<Line("", None, 0, "")>>
        \o message

\* the content create_commit builds
CommitContent(tree_hash, parent_hash, message, author, time) ==
    <<Line("tree", tree_hash, 0, "")>>
        \o (IF parent_hash # None THEN <<Line("parent", parent_hash, 0, "")>> ELSE <<>>)
        \o <<Line("author", None, time, author), Line("committer", None, time, author)>>
        \o <<Line("", None, 0, "")>>
        \o message

\* create_commit(tree_hash, parent_hash, message, author): the digest returned
create_commit(tree_hash, parent_hash, message, author, time) ==
    Sha1(FullData("commit", CommitContent(tree_hash, parent_hash, message, author, time)))

\* the first line of content that starts with key, None when there is none
FirstLine(content, key) ==
    LET at == {i \in 1..Len(content) : content[i].key = key}
    IN  IF at = {} THEN None
        ELSE content[CHOOSE i \in at : \A j \in at : i <= j].sha

\* get_commit_tree(commit_hash)
get_commit_tree(objs, commit_hash) ==
    LET obj == read_object(objs, commit_hash)
    IN  IF obj.kind # "commit" THEN None ELSE FirstLine(Content(obj), "tree")

----------------------------------------------------------------------------
(* References *)

\* the head file: "ref: refs/heads/main", or a digest
SymbolicHead == [ref |-> TRUE, sha |-> None]
DirectHead(commit_hash) == [ref |-> FALSE, sha |-> commit_hash]

\* get_head_commit that reads the branch file whatever the head file holds
get_head_commit_BranchOnly(e, h, m) ==
    IF ~e THEN None ELSE m

\* get_head_commit(); an empty branch file is None
get_head_commit(e, h, m) ==
    IF ~e THEN None
    ELSE IF h.ref THEN m
    ELSE IF h.sha.len = HexDigestLen THEN h.sha
    ELSE None

RECURSIVE History(_, _)
\* the loop of get_commit_history from current on
History(objs, current) ==
    IF current = None THEN <<>>
    ELSE LET obj == read_object(objs, current)
         IN  IF obj.kind # "commit" THEN <<current>>
             ELSE <<current>> \o History(objs, FirstLine(Content(obj), "parent"))

\* get_commit_history()
get_commit_history(e, h, m, objs) == History(objs, get_head_commit(e, h, m))

----------------------------------------------------------------------------
(* Status *)

\* get_working_directory_files(): every file outside .rev
get_working_directory_files(w) == {p \in DOMAIN w : w[p].there}

\* get_status that compares digests without asking whether the path is on disk
get_status_NoDiskCheck(lines, w) ==
    LET index_entries == read_index(lines)
        wd_files == get_working_directory_files(w)
        is_modified(entry) == compute_file_hash(w[entry.path]) # entry.blob_hash
        is_deleted(entry) == entry.path \notin wd_files
        paths(entries) == [i \in 1..Len(entries) |-> entries[i].path]
    IN  [modified |-> paths(SelectSeq(index_entries, is_modified)),
         deleted |-> paths(SelectSeq(index_entries, is_deleted)),
         untracked |-> {p \in wd_files : p \notin Keys(index_entries)}]

\* get_status(); the dict order of modified and deleted is kept, untracked
\* comes from a set
get_status(lines, w) ==
    LET index_entries == read_index(lines)
        wd_files == get_working_directory_files(w)
        is_modified(entry) ==
            /\ entry.path \in wd_files
            /\ compute_file_hash(w[entry.path]) # entry.blob_hash
        is_deleted(entry) == entry.path \notin wd_files
        paths(entries) == [i \in 1..Len(entries) |-> entries[i].path]
    IN  [modified |-> paths(SelectSeq(index_entries, is_modified)),
         deleted |-> paths(SelectSeq(index_entries, is_deleted)),
         untracked |-> {p \in wd_files : p \notin Keys(index_entries)}]

----------------------------------------------------------------------------
(* Checkout *)

RECURSIVE restore_tree(_, _, _, _)
RECURSIVE RestoreEntries(_, _, _, _, _)

\* restore_tree(tree_hash, base_path): the working directory it leaves
restore_tree(objs, w, tree_hash, base_path) ==
    LET obj == read_object(objs, tree_hash)
    IN  IF obj.kind # "tree" THEN w
        ELSE RestoreEntries(objs, w, Content(obj), 1, base_path)

\* the while loop of restore_tree from entry pos on; a file that open(.., "wb")
\* creates is not executable, one it overwrites keeps its permissions
RestoreEntries(objs, w, tree_data, pos, base_path) ==
    IF pos > Len(tree_data) THEN w
    ELSE LET entry == tree_data[pos]
             full_path == base_path \o entry.name
             blob == read_object(objs, entry.sha)
             written ==
                 IF entry.mode = "40000"
                 THEN restore_tree(objs, w, entry.sha, full_path)
                 ELSE IF blob.kind = "blob"
                 THEN [w EXCEPT ![full_path] = File(Content(blob), w[full_path].exec)]
                 ELSE w
         IN  RestoreEntries(objs, written, tree_data, pos + 1, base_path)

RECURSIVE collect_entries(_, _, _, _)
RECURSIVE CollectEntries(_, _, _, _, _)

\* collect_entries(tree_hash, base_path) of revert_to_commit: new_index_entries
\* after it, from new_index_entries before it
collect_entries(objs, dict, tree_hash, base_path) ==
    LET obj == read_object(objs, tree_hash)
    IN  IF obj.kind # "tree" THEN dict
        ELSE CollectEntries(objs, dict, Content(obj), 1, base_path)

CollectEntries(objs, dict, tree_data, pos, base_path) ==
    IF pos > Len(tree_data) THEN dict
    ELSE LET entry == tree_data[pos]
             full_path == base_path \o entry.name
             collected ==
                 IF entry.mode = "40000"
                 THEN collect_entries(objs, dict, entry.sha, full_path)
                 ELSE DictSet(dict, IndexLine(entry.mode, entry.sha, full_path))
         IN  CollectEntries(objs, collected, tree_data, pos + 1, base_path)

\* RevertedFiles that removes every file of the working directory, indexed or not
RevertedFiles_ClearsAll(objs, lines, w, tree_hash) ==
    restore_tree(objs, [p \in DOMAIN w |-> NoFile], tree_hash, <<>>)

\* RevertedFiles without the call of restore_tree
RevertedFiles_NoRestore(objs, lines, w, tree_hash) ==
    LET index_entries == read_index(lines)
    IN  [p \in DOMAIN w |-> IF p \in Keys(index_entries) THEN NoFile ELSE w[p]]

\* the working directory after revert_to_commit has removed the indexed paths
\* and restored the tree
RevertedFiles(objs, lines, w, tree_hash) ==
    LET index_entries == read_index(lines)
        cleared == [p \in DOMAIN w |->
                      IF p \in Keys(index_entries) THEN NoFile ELSE w[p]]
    IN  restore_tree(objs, cleared, tree_hash, <<>>)

\* the index file revert_to_commit writes
RevertedIndex(objs, tree_hash) ==
    LET new_index_entries == collect_entries(objs, <<>>, tree_hash, <<>>)
        sorted_entries == SortedKeys(Keys(new_index_entries))
    IN  [i \in 1..Len(sorted_entries) |-> Get(new_index_entries, sorted_entries[i])]

----------------------------------------------------------------------------
(* The commands *)

Last(op, path, sha, ok) == [op |-> op, path |-> path, sha |-> sha, ok |-> ok]

\* the processes that may run rev add at the same time
Procs == {1, 2}

\* a process that runs no command
Idle == [pc |-> "idle", file_path |-> <<>>, entries |-> <<>>, content |-> <<>>]

\* one more command or edit
Step == steps < MaxSteps /\ steps' = steps + 1

Init ==
    /\ exists = FALSE
    /\ wd \in [Paths -> InitialFiles \cup {NoFile}]
    /\ objects = {}
    /\ index = <<>>
    /\ head = SymbolicHead
    /\ main = None
    /\ now = 0
    /\ steps = 0
    /\ last = Last("none", <<>>, None, FALSE)
    /\ made = <<>>
    /\ reverted = FALSE
    /\ procs = [p \in Procs |-> Idle]

\* rev init: init_repository()
InitRepository ==
    /\ Step
    /\ IF exists
       THEN /\ last' = Last("init", <<>>, None, FALSE)
            /\ UNCHANGED <<exists, objects, index, head, main>>
       ELSE /\ exists' = TRUE
            /\ objects' = {}
            /\ head' = SymbolicHead
            /\ main' = None
            /\ index' = <<>>
            /\ last' = Last("init", <<>>, None, TRUE)
    /\ UNCHANGED <<wd, now, made, reverted, procs>>

\* Add with a create_blob that returns the digest and writes no object file
Add_NoBlob(file_path) ==
    /\ exists
    /\ Step
    /\ IF ~wd[file_path].there
       THEN /\ last' = Last("add", <<>>, None, FALSE)
            /\ UNCHANGED <<objects, index>>
       ELSE LET combined_data == FullData("blob", wd[file_path].content)
                hex_digest == Sha1(combined_data)
            IN  /\ objects' = objects
                /\ index' = update_index(index, wd[file_path], file_path, hex_digest)
                /\ last' = Last("add", file_path, hex_digest, TRUE)
    /\ UNCHANGED <<exists, wd, head, main, now, made, reverted, procs>>

\* rev add file_path: create_blob(file_path), then update_index(file_path, blob_hash)
Add(file_path) ==
    /\ exists
    /\ Step
    /\ IF ~wd[file_path].there
       THEN /\ last' = Last("add", <<>>, None, FALSE)
            /\ UNCHANGED <<objects, index>>
       ELSE LET combined_data == FullData("blob", wd[file_path].content)
                hex_digest == Sha1(combined_data)
            IN  /\ objects' = WriteObject(objects, combined_data)
                /\ index' = update_index(index, wd[file_path], file_path, hex_digest)
                /\ last' = Last("add", file_path, hex_digest, TRUE)
    /\ UNCHANGED <<exists, wd, head, main, now, made, reverted, procs>>

\* update_head_ref that points head back at the branch it writes
update_head_ref_Reattach(h, m, commit_hash) ==
    [head |-> SymbolicHead, main |-> commit_hash]

\* update_head_ref that always writes the branch file
update_head_ref_BranchOnly(h, m, commit_hash) ==
    [head |-> h, main |-> commit_hash]

\* update_head_ref that always writes the head file
update_head_ref_HeadOnly(h, m, commit_hash) ==
    [head |-> DirectHead(commit_hash), main |-> m]

\* update_head_ref(commit_hash): the head file and the branch file it leaves
update_head_ref(h, m, commit_hash) ==
    IF h.ref THEN [head |-> h, main |-> commit_hash]
    ELSE [head |-> DirectHead(commit_hash), main |-> m]

\* Commit with create_tree called before the index is found empty
Commit_TreeFirst(message, time) ==
    /\ exists
    /\ Step
    /\ LET index_entries == read_index(index)
           tree_hash == create_tree(index_entries)
           parent_hash == get_head_commit(exists, head, main)
           content == CommitContent(tree_hash, parent_hash, message, Author, time)
           commit_hash == create_commit(tree_hash, parent_hash, message, Author, time)
           refs == update_head_ref(head, main, commit_hash)
       IN  IF index_entries = <<>>
           THEN /\ objects' = WriteObject(objects, FullData("tree", TreeContent(index_entries)))
                /\ last' = Last("commit", <<>>, None, FALSE)
                /\ UNCHANGED <<head, main, now, made>>
           ELSE /\ objects' = WriteObject(
                        WriteObject(objects, FullData("tree", TreeContent(index_entries))),
                        FullData("commit", content))
                /\ head' = refs.head
                /\ main' = refs.main
                /\ made' = Append(made, [commit |-> commit_hash, tree |-> tree_hash,
                                          staged |-> Range(index_entries)])
                /\ now' = time
                /\ last' = Last("commit", <<>>, commit_hash, TRUE)
    /\ UNCHANGED <<exists, wd, index, reverted, procs>>

\* rev commit -m message: commit_changes(message), with time the value of
\* int(time.time()) in create_commit
Commit(message, time) ==
    /\ exists
    /\ Step
    /\ LET index_entries == read_index(index)
           tree_hash == create_tree(index_entries)
           parent_hash == get_head_commit(exists, head, main)
           content == CommitContent(tree_hash, parent_hash, message, Author, time)
           commit_hash == create_commit(tree_hash, parent_hash, message, Author, time)
           refs == update_head_ref(head, main, commit_hash)
       IN  IF index_entries = <<>>
           THEN /\ last' = Last("commit", <<>>, None, FALSE)
                /\ UNCHANGED <<objects, head, main, now, made>>
           ELSE /\ objects' = WriteObject(
                        WriteObject(objects, FullData("tree", TreeContent(index_entries))),
                        FullData("commit", content))
                /\ head' = refs.head
                /\ main' = refs.main
                /\ made' = Append(made, [commit |-> commit_hash, tree |-> tree_hash,
                                          staged |-> Range(index_entries)])
                /\ now' = time
                /\ last' = Last("commit", <<>>, commit_hash, TRUE)
    /\ UNCHANGED <<exists, wd, index, reverted, procs>>

\* a digest cut to the 7 characters the commit command prints
Short(sha) == [len |-> 7, of |-> sha.of]

\* the digest of an object that was never stored
Unknown == Sha1(FullData("commit", <<>>))

\* what a user may pass to rev revert
RevertArgs == {o.sha : o \in objects}
                \cup {Short(o.sha) : o \in {x \in objects : x.sha.of.kind = "commit"}}
                \cup {Unknown}

\* Revert that removes the stored blobs of the indexed paths with their files
Revert_RemovesBlobs(commit_hash) ==
    /\ exists
    /\ Step
    /\ LET tree_hash == get_commit_tree(objects, commit_hash)
       IN  IF read_object(objects, commit_hash).kind # "commit" \/ tree_hash = None
           THEN /\ last' = Last("revert", <<>>, commit_hash, FALSE)
                /\ UNCHANGED <<wd, index, head, reverted, objects>>
           ELSE /\ wd' = RevertedFiles(objects, index, wd, tree_hash)
                /\ index' = RevertedIndex(objects, tree_hash)
                /\ head' = DirectHead(commit_hash)
                /\ reverted' = TRUE
                /\ objects' = {o \in objects :
                                 \A i \in 1..Len(index) : o.sha # index[i].blob_hash}
                /\ last' = Last("revert", <<>>, commit_hash, TRUE)
    /\ UNCHANGED <<exists, main, now, made, procs>>

\* Revert that takes any stored object for a commit
Revert_AnyObject(commit_hash) ==
    /\ exists
    /\ Step
    /\ LET tree_hash == get_commit_tree(objects, commit_hash)
       IN  IF read_object(objects, commit_hash).kind = "none"
           THEN /\ last' = Last("revert", <<>>, commit_hash, FALSE)
                /\ UNCHANGED <<wd, index, head, reverted>>
           ELSE /\ wd' = RevertedFiles(objects, index, wd, tree_hash)
                /\ index' = RevertedIndex(objects, tree_hash)
                /\ head' = DirectHead(commit_hash)
                /\ reverted' = TRUE
                /\ last' = Last("revert", <<>>, commit_hash,
                                read_object(objects, commit_hash).kind = "commit")
    /\ UNCHANGED <<exists, objects, main, now, made, procs>>

\* rev revert commit_hash: revert_to_commit(commit_hash)
Revert(commit_hash) ==
    /\ exists
    /\ Step
    /\ LET tree_hash == get_commit_tree(objects, commit_hash)
       IN  IF read_object(objects, commit_hash).kind # "commit" \/ tree_hash = None
           THEN /\ last' = Last("revert", <<>>, commit_hash, FALSE)
                /\ UNCHANGED <<wd, index, head, reverted>>
           ELSE /\ wd' = RevertedFiles(objects, index, wd, tree_hash)
                /\ index' = RevertedIndex(objects, tree_hash)
                /\ head' = DirectHead(commit_hash)
                /\ reverted' = TRUE
                /\ last' = Last("revert", <<>>, commit_hash, TRUE)
    /\ UNCHANGED <<exists, objects, main, now, made, procs>>

\* rev status: get_status() reads and writes nothing
Status ==
    /\ exists
    /\ UNCHANGED vars

\* rev log: get_commit_history() reads and writes nothing
Log ==
    /\ exists
    /\ UNCHANGED vars

\* the user writes a file of the working directory (the files written before
\* rev init are those of the initial state)
WriteFile(path, file) ==
    /\ exists
    /\ wd[path] # file
    /\ Step
    /\ wd' = [wd EXCEPT ![path] = file]
    /\ last' = Last("write", <<>>, None, TRUE)
    /\ UNCHANGED <<exists, objects, index, head, main, now, made, reverted, procs>>

\* the user deletes a file of the working directory
RemoveFile(path) ==
    /\ exists
    /\ wd[path].there
    /\ Step
    /\ wd' = [wd EXCEPT ![path] = NoFile]
    /\ last' = Last("remove", <<>>, None, TRUE)
    /\ UNCHANGED <<exists, objects, index, head, main, now, made, reverted, procs>>

Next ==
    \/ InitRepository
    \/ \E file_path \in Paths : Add(file_path)
    \/ \E message \in Messages, time \in now..MaxTime : Commit(message, time)
    \/ \E commit_hash \in RevertArgs : Revert(commit_hash)
    \/ Status
    \/ Log
    \/ \E path \in Paths, file \in UserFiles : WriteFile(path, file)
    \/ \E path \in Paths : RemoveFile(path)

Spec == Init /\ [][Next]_vars

----------------------------------------------------------------------------
(* Two rev add commands run at the same time, each in its own process.  A  *)
(* step is one access to a shared file: open(.., "w") empties the file,    *)
(* the write reaches it when the file is closed.                           *)

\* a process that has been started as rev add file_path
Started(file_path) ==
    [pc |-> "create_blob", file_path |-> file_path, entries |-> <<>>, content |-> <<>>]

\* the file open(.., "wb") leaves until it is written: it is empty, and
\* read_object returns (None, None) on it
Truncated == <<"", NoData>>

\* what is left of the line of another process behind the lines written over it
TornLine == IndexLine("", None, <<>>)

\* combined_data of create_blob in process p
CombinedData(p) == FullData("blob", wd[procs[p].file_path].content)

\* the file after lines have been written from its start: what another
\* process wrote since it was opened stays behind them where it is longer
Overwritten(file, lines) ==
    IF file = <<>> \/ file = lines THEN {lines}
    ELSE {lines, Append(lines, TornLine)}

ConcurrentInit ==
    /\ exists = TRUE
    /\ wd \in [Paths -> UserFiles \cup {NoFile}]
    /\ objects = {}
    /\ index = <<>>
    /\ head = SymbolicHead
    /\ main = None
    /\ now = 0
    /\ steps = 0
    /\ last = Last("init", <<>>, None, TRUE)
    /\ made = <<>>
    /\ reverted = FALSE
    /\ procs \in {f \in [Procs -> {Started(path) : path \in Paths}] :
                    /\ f[1].file_path # f[2].file_path
                    /\ \A p \in Procs : wd[f[p].file_path].there}

\* create_blob: open(obj_path, "wb")
OpenBlob(p) ==
    /\ procs[p].pc = "create_blob"
    /\ objects' = {o \in objects : o.sha # Sha1(CombinedData(p))}
                      \cup {[sha |-> Sha1(CombinedData(p)), file |-> Truncated]}
    /\ procs' = [procs EXCEPT ![p].pc = "write_blob"]
    /\ UNCHANGED <<exists, wd, index, head, main, now, steps, last, made, reverted>>

\* create_blob: f.write(compressed_data), and the file is closed
WriteBlob(p) ==
    /\ procs[p].pc = "write_blob"
    /\ objects' = WriteObject(objects, CombinedData(p))
    /\ procs' = [procs EXCEPT ![p].pc = "read_index"]
    /\ UNCHANGED <<exists, wd, index, head, main, now, steps, last, made, reverted>>

\* update_index: entries = f.readlines()
ReadIndex(p) ==
    /\ procs[p].pc = "read_index"
    /\ procs' = [procs EXCEPT ![p].pc = "open_index", ![p].entries = index]
    /\ UNCHANGED <<exists, wd, objects, index, head, main, now, steps, last, made,
                   reverted>>

\* update_index: open(index_file, "w")
OpenIndex(p) ==
    /\ procs[p].pc = "open_index"
    /\ index' = <<>>
    /\ procs' = [procs EXCEPT ![p].pc = "write_index"]
    /\ UNCHANGED <<exists, wd, objects, head, main, now, steps, last, made, reverted>>

\* update_index: f.writelines(new_entries), and the file is closed
WriteIndex(p) ==
    /\ procs[p].pc = "write_index"
    /\ LET file_path == procs[p].file_path
           new_entries == update_index(procs[p].entries, wd[file_path], file_path,
                                       Sha1(CombinedData(p)))
       IN  index' \in Overwritten(index, new_entries)
    /\ procs' = [procs EXCEPT ![p].pc = "done"]
    /\ UNCHANGED <<exists, wd, objects, head, main, now, steps, last, made, reverted>>

ConcurrentNext ==
    \E p \in Procs :
        \/ OpenBlob(p)
        \/ WriteBlob(p)
        \/ ReadIndex(p)
        \/ OpenIndex(p)
        \/ WriteIndex(p)

ConcurrentSpec == ConcurrentInit /\ [][ConcurrentNext]_vars

----------------------------------------------------------------------------
(* rev add and rev commit run one file access at a time by one process,    *)
(* which may stop between two of its file writes; the next command then    *)
(* starts on the files as they were left.                                  *)

\* the process that runs the commands
Runner == 1

\* the places in the code where a file is open for writing
FileOpen == {"write_blob", "write_index", "write_tree", "write_commit", "write_ref"}

\* the process runs no command: none was started, the last one has returned
\* or has stopped
AtRest == procs[Runner].pc \in {"idle", "done"}

\* one more command is started
StartStep == steps < MaxCommands /\ steps' = steps + 1

\* the commit whose content the process has built
CommitHash(p) == Sha1(FullData("commit", procs[p].content))

CrashInit ==
    /\ exists = TRUE
    /\ wd \in [Paths -> InitialFiles \cup {NoFile}]
    /\ objects = {}
    /\ index = <<>>
    /\ head = SymbolicHead
    /\ main = None
    /\ now = 0
    /\ steps = 0
    /\ last = Last("init", <<>>, None, TRUE)
    /\ made = <<>>
    /\ reverted = FALSE
    /\ procs = [p \in Procs |-> Idle]

\* StartAdd that writes the index entry first and never the blob
StartAdd_IndexFirst(file_path) ==
    /\ AtRest
    /\ StartStep
    /\ wd[file_path].there
    /\ procs' = [procs EXCEPT ![Runner] = [Started(file_path) EXCEPT !.pc = "read_index"]]
    /\ UNCHANGED <<exists, wd, objects, index, head, main, now, last, made, reverted>>

\* rev add file_path is started on a file that exists
StartAdd(file_path) ==
    /\ AtRest
    /\ StartStep
    /\ wd[file_path].there
    /\ procs' = [procs EXCEPT ![Runner] = Started(file_path)]
    /\ UNCHANGED <<exists, wd, objects, index, head, main, now, last, made, reverted>>

\* rev commit -m message is started: commit_changes reads the index and
\* returns when it is empty
StartCommit(message) ==
    /\ AtRest
    /\ StartStep
    /\ procs' = [procs EXCEPT ![Runner] =
                    [pc |-> IF read_index(index) = <<>> THEN "done" ELSE "create_tree",
                     file_path |-> <<>>, entries |-> index, content |-> message]]
    /\ UNCHANGED <<exists, wd, objects, index, head, main, now, last, made, reverted>>

\* create_tree: open(obj_path, "wb")
OpenTree(p) ==
    /\ procs[p].pc = "create_tree"
    /\ LET sha == create_tree(read_index(procs[p].entries))
       IN  objects' = {o \in objects : o.sha # sha} \cup {[sha |-> sha, file |-> Truncated]}
    /\ procs' = [procs EXCEPT ![p].pc = "write_tree"]
    /\ UNCHANGED <<exists, wd, index, head, main, now, steps, last, made, reverted>>

\* create_tree: f.write(zlib.compress(full_data)), and the file is closed
WriteTree(p) ==
    /\ procs[p].pc = "write_tree"
    /\ objects' = WriteObject(objects,
                       FullData("tree", TreeContent(read_index(procs[p].entries))))
    /\ procs' = [procs EXCEPT ![p].pc = "create_commit"]
    /\ UNCHANGED <<exists, wd, index, head, main, now, steps, last, made, reverted>>

\* get_head_commit, then create_commit up to open(obj_path, "wb"), with time
\* the value of int(time.time())
OpenCommit(p, time) ==
    /\ procs[p].pc = "create_commit"
    /\ LET tree_hash == create_tree(read_index(procs[p].entries))
           parent_hash == get_head_commit(exists, head, main)
           content == CommitContent(tree_hash, parent_hash, procs[p].content, Author, time)
           sha == Sha1(FullData("commit", content))
       IN  /\ objects' = {o \in objects : o.sha # sha}
                             \cup {[sha |-> sha, file |-> Truncated]}
           /\ procs' = [procs EXCEPT ![p].pc = "write_commit", ![p].content = content]
    /\ now' = time
    /\ UNCHANGED <<exists, wd, index, head, main, steps, last, made, reverted>>

\* create_commit: f.write(zlib.compress(full_data)), and the file is closed
WriteCommit(p) ==
    /\ procs[p].pc = "write_commit"
    /\ objects' = WriteObject(objects, FullData("commit", procs[p].content))
    /\ procs' = [procs EXCEPT ![p].pc = "update_head_ref"]
    /\ UNCHANGED <<exists, wd, index, head, main, now, steps, last, made, reverted>>

\* update_head_ref: open(branch_file, "w") or open(head_file, "w")
OpenRef(p) ==
    /\ procs[p].pc = "update_head_ref"
    /\ head' = update_head_ref(head, main, None).head
    /\ main' = update_head_ref(head, main, None).main
    /\ procs' = [procs EXCEPT ![p].pc = "write_ref"]
    /\ UNCHANGED <<exists, wd, objects, index, now, steps, last, made, reverted>>

\* update_head_ref: f.write(commit_hash), and the file is closed
WriteRef(p) ==
    /\ procs[p].pc = "write_ref"
    /\ head' = update_head_ref(head, main, CommitHash(p)).head
    /\ main' = update_head_ref(head, main, CommitHash(p)).main
    /\ procs' = [procs EXCEPT ![p].pc = "done"]
    /\ UNCHANGED <<exists, wd, objects, index, now, steps, last, made, reverted>>

\* the process stops between two of its file writes
Stop(p) ==
    /\ procs[p].pc \notin {"idle", "done"} \cup FileOpen
    /\ procs' = [procs EXCEPT ![p] = Idle]
    /\ UNCHANGED <<exists, wd, objects, index, head, main, now, steps, last, made,
                   reverted>>

\* rev revert commit_hash, run to its end between two other commands
RevertAtRest(commit_hash) ==
    /\ AtRest
    /\ steps < MaxCommands
    /\ Revert(commit_hash)

CrashNext ==
    \/ \E file_path \in Paths : StartAdd(file_path)
    \/ OpenBlob(Runner)
    \/ WriteBlob(Runner)
    \/ ReadIndex(Runner)
    \/ OpenIndex(Runner)
    \/ WriteIndex(Runner)
    \/ \E message \in Messages : StartCommit(message)
    \/ OpenTree(Runner)
    \/ WriteTree(Runner)
    \/ \E time \in now..MaxTime : OpenCommit(Runner, time)
    \/ WriteCommit(Runner)
    \/ OpenRef(Runner)
    \/ WriteRef(Runner)
    \/ Stop(Runner)
    \/ \E commit_hash \in RevertArgs : RevertAtRest(commit_hash)

CrashSpec == CrashInit /\ [][CrashNext]_vars

----------------------------------------------------------------------------
(* The steps of the commands, as the claims speak of them *)

\* this step is a successful rev add of file_path
AddStep(file_path) ==
    steps' # steps /\ last'.op = "add" /\ last'.ok /\ last'.path = file_path

\* this step is a successful commit that returned commit_hash
CommitStep(commit_hash) ==
    steps' # steps /\ last' = Last("commit", <<>>, commit_hash, TRUE)

\* this step is a successful revert to commit_hash
RevertStep(commit_hash) ==
    steps' # steps /\ last' = Last("revert", <<>>, commit_hash, TRUE)

HeadCommit == get_head_commit(exists, head, main)

\* the parent recorded in a stored commit
ParentOf(objs, commit_hash) ==
    FirstLine(Content(read_object(objs, commit_hash)), "parent")

\* the content of the blob an index entry names
StagedContent(entry) == Content(read_object(objects, entry.blob_hash))

\* the digest staged for a path: that of the last line of the index file with the path
StagedDigest(path) ==
    LET at == {i \in 1..Len(index) : index[i].path = path}
    IN  index[CHOOSE i \in at : \A j \in at : j <= i].blob_hash

IndexedPaths == {index[i].path : i \in 1..Len(index)}

\* nothing is staged or edited since the commit at head: the index entries are
\* those the head commit was made from and every one of them is on disk as staged
CleanAtHead ==
    /\ \E i \in 1..Len(made) :
          made[i].commit = HeadCommit /\ made[i].staged = Range(read_index(index))
    /\ \A path \in IndexedPaths :
          wd[path].there /\ compute_file_hash(wd[path]) = StagedDigest(path)

----------------------------------------------------------------------------
(* C1 *)

\* C1: after init and N >= 1 successful commits with no revert,
\* get_commit_history returns exactly the N commits made, most recent first, and
\* get_commit_tree of each is the tree built from the index when it was made.
C1_HistoryOrdering ==
    (exists /\ ~reverted /\ Len(made) >= 1) =>
        LET history == get_commit_history(exists, head, main, objects)
        IN  /\ Len(history) = Len(made)
            /\ \A i \in 1..Len(made) :
                  /\ history[i] = made[Len(made) + 1 - i].commit
                  /\ get_commit_tree(objects, history[i]) = made[Len(made) + 1 - i].tree

----------------------------------------------------------------------------
(* C2 *)

\* C2: a revert to the head commit, made when the index and the working files
\* are exactly what was committed at head, leaves every path of the working
\* directory with the same existence and the same content.
C2_RevertToHeadIsNoOp ==
    [][(RevertStep(HeadCommit) /\ CleanAtHead) =>
          \A path \in Paths :
              /\ wd'[path].there = wd[path].there
              /\ wd'[path].content = wd[path].content]_vars

----------------------------------------------------------------------------
(* C3 *)

\* C3: a successful revert to a commit leaves every path that was staged in
\* that commit on disk with exactly the content that was staged.
C3_RoundTrip ==
    [][\A i \in 1..Len(made) :
          RevertStep(made[i].commit) =>
              \A entry \in made[i].staged :
                  /\ wd'[entry.path].there
                  /\ wd'[entry.path].content = StagedContent(entry)]_vars

----------------------------------------------------------------------------
(* C4 *)

OnDisk == {path \in Paths : wd[path].there}

\* C4: get_status reports as modified exactly the indexed paths on disk whose
\* content digest differs from the staged one, as deleted exactly the indexed
\* paths not on disk, as untracked exactly the paths on disk that are not
\* indexed; the three are pairwise disjoint, no path is listed twice, and an
\* indexed path whose content on disk is the staged content is in none.
C4_StatusCorrect ==
    exists =>
        LET status == get_status(index, wd)
            modified == Range(status.modified)
            deleted == Range(status.deleted)
        IN  /\ modified = {path \in IndexedPaths \cap OnDisk :
                              compute_file_hash(wd[path]) # StagedDigest(path)}
            /\ deleted = IndexedPaths \ OnDisk
            /\ status.untracked = OnDisk \ IndexedPaths
            /\ modified \cap deleted = {}
            /\ modified \cap status.untracked = {}
            /\ deleted \cap status.untracked = {}
            /\ Len(status.modified) = Cardinality(modified)
            /\ Len(status.deleted) = Cardinality(deleted)
            /\ \A path \in IndexedPaths \cap OnDisk :
                  compute_file_hash(wd[path]) = StagedDigest(path) =>
                      path \notin modified \cup deleted \cup status.untracked

\* a modified, a deleted and an untracked path at once
C4_Witness ==
    /\ exists
    /\ get_status(index, wd).modified # <<>>
    /\ get_status(index, wd).deleted # <<>>
    /\ get_status(index, wd).untracked # {}

----------------------------------------------------------------------------
(* C5 *)

\* C5: the head file goes from symbolic to direct only in a successful revert,
\* and a successful commit made while head is symbolic writes its digest into
\* the branch file and leaves the head file as it was.
C5_DirectOnlyByRevert ==
    [][/\ (head.ref /\ ~head'.ref) => RevertStep(last'.sha)
       /\ (CommitStep(last'.sha) /\ head.ref) => (main' = last'.sha /\ head' = head)]_vars

\* a revert has detached head after a commit went through the branch file
C5_Witness ==
    /\ last.op = "revert" /\ last.ok
    /\ ~head.ref
    /\ main # None

----------------------------------------------------------------------------
(* C6 *)

----------------------------------------------------------------------------
(* C7 *)

\* C7: no stored tree has two entries with the same name.
C7_TreeNamesUnique ==
    \A o \in objects :
        LET data == Decompress(o.file)
        IN  data.kind = "tree" =>
                \A i, j \in 1..Len(data.entries) :
                    data.entries[i].name = data.entries[j].name => i = j

----------------------------------------------------------------------------
(* C8 *)

LinesOf(lines, path) == {i \in 1..Len(lines) : lines[i].path = path}
EntriesOf(lines, path) == [i \in LinesOf(lines, path) |-> lines[i]]

\* C8: after update_index(p, d) the index holds exactly one entry for p, with
\* digest d, the entries of every other path are as they were, and the index
\* never holds two entries for one path.
C8_UpdateIndexUpserts ==
    [][/\ \A path \in Paths :
            AddStep(path) =>
                /\ Cardinality(LinesOf(index', path)) = 1
                /\ \A i \in LinesOf(index', path) : index'[i].blob_hash = last'.sha
                /\ \A other \in Paths \ {path} :
                      EntriesOf(index', other) = EntriesOf(index, other)
       /\ \A path \in Paths : Cardinality(LinesOf(index', path)) <= 1]_vars

----------------------------------------------------------------------------
(* C9 *)

\* the index entries are those the head commit was made from
IndexAsAtHead ==
    /\ HeadCommit # None
    /\ \E i \in 1..Len(made) :
          made[i].commit = HeadCommit /\ made[i].staged = Range(read_index(index))

\* C9: a commit made with the index entries unchanged since the commit at head
\* has a digest other than that of the head commit, the tree of the head
\* commit, and the head commit as its parent.
C9_RecommitSameTree ==
    [][(CommitStep(last'.sha) /\ IndexAsAtHead) =>
          /\ last'.sha # HeadCommit
          /\ get_commit_tree(objects', last'.sha) = get_commit_tree(objects, HeadCommit)
          /\ ParentOf(objects', last'.sha) = HeadCommit]_vars

\* two commits in a row from the same index entries
C9_Witness ==
    /\ last.op = "commit" /\ last.ok
    /\ Len(made) >= 2
    /\ made[Len(made)].staged = made[Len(made) - 1].staged
    /\ made[Len(made)].tree = made[Len(made) - 1].tree
    /\ made[Len(made)].commit # made[Len(made) - 1].commit

----------------------------------------------------------------------------
(* C10 *)

\* the objects stored with this kind and payload
StoredAs(kind, payload) ==
    {o \in objects : Decompress(o.file) = FullData(kind, payload)}

\* C10: staging content whose blob is stored returns the digest it is stored
\* under and leaves the object store as it was; a commit whose tree is stored
\* builds the digest it is stored under and changes no stored object, adding
\* at most its commit object.
C10_StoreIdempotent ==
    [][/\ \A path \in Paths :
            AddStep(path) =>
                \A o \in StoredAs("blob", wd[path].content) :
                    last'.sha = o.sha /\ objects' = objects
       /\ CommitStep(last'.sha) =>
            \A o \in StoredAs("tree", TreeContent(read_index(index))) :
                /\ made'[Len(made')].tree = o.sha
                /\ objects \subseteq objects'
                /\ \A n \in objects' \ objects : n.sha = last'.sha]_vars

\* the same content has been staged a second time, under another path
C10_Witness ==
    /\ last.op = "add" /\ last.ok
    /\ Len(index) >= 2
    /\ index[Len(index)].blob_hash = index[1].blob_hash
    /\ index[Len(index)].blob_hash = last.sha

----------------------------------------------------------------------------
(* C11 *)

\* this step is a rev commit
CommitRun == steps' # steps /\ last'.op = "commit"

\* C11: a commit run on an empty index fails, returning no digest, and leaves
\* the object store, the head file, the branch file, the index and the working
\* directory as they were: no tree and no commit object is written.
C11_EmptyCommitFails ==
    [][(CommitRun /\ read_index(index) = <<>>) =>
          /\ ~last'.ok
          /\ last'.sha = None
          /\ objects' = objects
          /\ head' = head
          /\ main' = main
          /\ index' = index
          /\ wd' = wd]_vars

\* a commit has failed on an empty index with a file to stage on disk
C11_Witness ==
    /\ last = Last("commit", <<>>, None, FALSE)
    /\ read_index(index) = <<>>
    /\ OnDisk # {}

----------------------------------------------------------------------------
(* C12 *)

\* this step is a rev revert given commit_hash
RevertRun(commit_hash) ==
    steps' # steps /\ last'.op = "revert" /\ last'.sha = commit_hash

\* C12: a revert given a digest that does not resolve to a stored commit (an
\* unknown digest, a cut digest, the digest of a stored blob or tree) fails
\* and leaves the working directory, the index, the head file, the branch
\* file and the object store as they were.
C12_InvalidRevertFails ==
    [][(RevertRun(last'.sha) /\ read_object(objects, last'.sha).kind # "commit") =>
          /\ ~last'.ok
          /\ wd' = wd
          /\ index' = index
          /\ head' = head
          /\ main' = main
          /\ objects' = objects]_vars

\* a revert given the digest of a stored tree has failed
C12_Witness ==
    /\ last.op = "revert" /\ ~last.ok
    /\ read_object(objects, last.sha).kind = "tree"
    /\ index # <<>>

----------------------------------------------------------------------------
(* C13 *)

\* the entries of the tree of a stored commit
TreeOf(objs, commit_hash) ==
    Content(read_object(objs, get_commit_tree(objs, commit_hash)))

----------------------------------------------------------------------------
(* C14 *)

\* C14: get_commit_history returns a list with no repeated digest that, when
\* not empty, ends at a stored commit that has no parent.
C14_HistoryAcyclic ==
    exists =>
        LET history == get_commit_history(exists, head, main, objects)
        IN  /\ \A i, j \in 1..Len(history) : history[i] = history[j] => i = j
            /\ history # <<>> =>
                  /\ read_object(objects, history[Len(history)]).kind = "commit"
                  /\ ParentOf(objects, history[Len(history)]) = None

----------------------------------------------------------------------------
(* C15 *)

----------------------------------------------------------------------------
(* C16 *)

\* the parent written into a stored commit: that of the parent line of its
\* header, the lines before the blank line; None when it has none
HeaderParent(objs, commit_hash) ==
    LET content == Content(read_object(objs, commit_hash))
        blank == CHOOSE i \in 1..Len(content) :
                    content[i].key = "" /\ \A j \in 1..(i - 1) : content[j].key # ""
    IN  FirstLine(SubSeq(content, 1, blank - 1), "parent")

----------------------------------------------------------------------------
(* C17 *)

\* C17: a successful revert to C leaves no file at any path that was in the
\* index and is not the name of an entry of C's tree, and leaves every path
\* that was neither in the index nor the name of an entry of C's tree as it was.
C17_RevertFrame ==
    [][RevertStep(last'.sha) =>
          LET tree_data == TreeOf(objects, last'.sha)
              restored == {tree_data[k].name : k \in 1..Len(tree_data)}
              indexed == Keys(read_index(index))
          IN  /\ \A path \in indexed \ restored : ~wd'[path].there
              /\ \A path \in Paths \ (indexed \cup restored) : wd'[path] = wd[path]]_vars

\* a revert has succeeded that removed a committed path without restoring it
\* and left an untracked file on disk
C17_Witness ==
    /\ last.op = "revert" /\ last.ok
    /\ \E i \in 1..Len(made) :
          /\ made[i].commit = last.sha
          /\ \E entry \in made[i].staged : ~wd[entry.path].there
    /\ OnDisk \ IndexedPaths # {}

----------------------------------------------------------------------------
(* C19 *)

----------------------------------------------------------------------------
(* C20 *)

----------------------------------------------------------------------------
(* C18 *)

\* both rev add processes have ended
BothDone == \A p \in Procs : procs[p].pc = "done"

\* the index lines that stage the path of process p
StagedBy(p) == {i \in 1..Len(index) : index[i].path = procs[p].file_path}

\* C18: when two processes that stage different paths have both ended, the
\* blob of each is stored with the content of its file, however their steps
\* interleaved.
C18_BlobsIntact ==
    BothDone =>
        \A p \in Procs :
            read_object(objects, Sha1(CombinedData(p))) = CombinedData(p)

\* a lost update: both processes have ended and the index has no line for the
\* path of one of them, while both blobs are stored
C18_Witness ==
    /\ BothDone
    /\ \E p \in Procs : StagedBy(p) = {}
    /\ \A p \in Procs : read_object(objects, Sha1(CombinedData(p))).kind = "blob"

----------------------------------------------------------------------------
(* C21 *)

\* get_head_commit gives None or a stored commit whose tree is stored, and
\* every index line names a stored blob
ReferencesResolve ==
    /\ \/ HeadCommit = None
       \/ /\ read_object(objects, HeadCommit).kind = "commit"
          /\ read_object(objects, get_commit_tree(objects, HeadCommit)).kind = "tree"
    /\ \A i \in 1..Len(index) :
          read_object(objects, index[i].blob_hash).kind = "blob"

\* C21: the blob is stored before rev add reads and writes the index, the
\* tree is stored before the commit is created, the commit and its tree are
\* stored before the branch or head file is rewritten, and wherever a command
\* is between two of its file writes, or has stopped there, get_head_commit
\* gives None or a stored commit whose tree is stored and every index line
\* names a stored blob.
C21_ObjectsBeforeReferences ==
    LET p == Runner
    IN  /\ procs[p].pc \in {"read_index", "open_index"} =>
              read_object(objects, Sha1(CombinedData(p))).kind = "blob"
        /\ procs[p].pc = "create_commit" =>
              read_object(objects, create_tree(read_index(procs[p].entries))).kind = "tree"
        /\ procs[p].pc = "update_head_ref" =>
              /\ read_object(objects, CommitHash(p)).kind = "commit"
              /\ read_object(objects, get_commit_tree(objects, CommitHash(p))).kind = "tree"
        /\ procs[p].pc \notin FileOpen => ReferencesResolve

\* a commit has stopped after it stored its commit object and before it
\* rewrote the branch file: head is still at the commit before it
C21_Witness ==
    /\ procs[Runner].pc = "idle"
    /\ HeadCommit # None
    /\ \E o \in objects :
          /\ Decompress(o.file).kind = "commit"
          /\ HeaderParent(objects, o.sha) = HeadCommit
    /\ ReferencesResolve

====
